---------------------------- MODULE Spec2Model ----------------------------
(***************************************************************************)
(* Model of push_block.py: the emergency WAF BLOCK rule push.              *)
(*                                                                         *)
(* The policy store (AWS WAFv2) is external: it is modelled by the         *)
(* contract the code relies on (list/get/create/update of the reference    *)
(* sets, get/update of the WebACL, an update being rejected with           *)
(* WAFOptimisticLockException when its LockToken is stale).  Each store    *)
(* call of the code is one atomic step of an invocation; the local         *)
(* computation that precedes a call belongs to the step of that call.      *)
(* Strings whose content the code inspects (addresses, patterns) are       *)
(* sequences of one-character strings; the WebACL ARN is a sequence of     *)
(* separators and words.  In Spec the operators pass the ARN of the        *)
(* policy; in SpecArgs one operator passes any ARN in either scope.        *)
(***************************************************************************)
EXTENDS Integers, Sequences, FiniteSets, TLC

\* ------------------------------------------------------------ bounds

\* Invocations of main() started in one behaviour, over all operators.
MaxRuns == 2
\* Writes to the WebACL by writers other than this tool.
MaxOther == 1
\* Invocations started in one behaviour of SpecArgs, where the arguments vary.
MaxArgRuns == 1

\* The operators (independent processes) running the tool.
Procs == {"p1", "p2"}

\* ------------------------------------------------------------ strings

Addr1 == <<"9", "/", "8">>
Addr2 == <<"1", "0", "/", "8">>
BadAddr == <<"9">>
Pat1 == <<"^", "/", "a">>
Pat2 == <<"^", "/", "(", "a", ")">>
BadPat == <<"(", "a">>

\* Code point of a character (Python compares strings by code point).
Ord(c) ==
    CASE c = "(" -> 40
      [] c = ")" -> 41
      [] c = "/" -> 47
      [] c = "0" -> 48
      [] c = "1" -> 49
      [] c = "8" -> 56
      [] c = "9" -> 57
      [] c = "^" -> 94
      [] c = "a" -> 97

\* s < t for Python strings: lexicographic by code point.
RECURSIVE StrLess(_, _)
StrLess(s, t) ==
    IF t = <<>> THEN FALSE
    ELSE IF s = <<>> THEN TRUE
    ELSE IF Ord(Head(s)) # Ord(Head(t)) THEN Ord(Head(s)) < Ord(Head(t))
    ELSE StrLess(Tail(s), Tail(t))

\* set(xs)
ToSet(xs) == {xs[i] : i \in DOMAIN xs}

\* sorted(S) of a set of strings
RECURSIVE Sorted(_)
Sorted(S) ==
    IF S = {} THEN <<>>
    ELSE LET m == CHOOSE x \in S : \A y \in S \ {x} : StrLess(x, y)
         IN  <<m>> \o Sorted(S \ {m})

\* "/" in a
HasSlash(a) == \E i \in DOMAIN a : a[i] = "/"

\* all("/" in a for a in addresses)
AddressesValid(addresses) == \A i \in DOMAIN addresses : HasSlash(addresses[i])

\* re.compile(p) succeeds.  Of the pattern grammar only the group structure
\* is modelled: a pattern compiles iff its parentheses are balanced.
RECURSIVE Balanced(_, _)
Balanced(p, depth) ==
    IF p = <<>> THEN depth = 0
    ELSE IF Head(p) = "(" THEN Balanced(Tail(p), depth + 1)
    ELSE IF Head(p) = ")" THEN depth > 0 /\ Balanced(Tail(p), depth - 1)
    ELSE Balanced(Tail(p), depth)

Compiles(p) == Balanced(p, 0)

PatternsValid(patterns) == \A i \in DOMAIN patterns : Compiles(patterns[i])

\* ------------------------------------------------------------ values

None == "None"
Kinds == {"ip", "regex"}

\* The block targets an operator may pass (--block-ip / --block-uri-regex).
Targets ==
    {[kind |-> "ip", value |-> a] : a \in {Addr1, Addr2, BadAddr}}
    \cup {[kind |-> "regex", value |-> r] : r \in {Pat1, BadPat}}

NoTarget == [kind |-> None, value |-> <<>>]

\* Name of the reference set each path uses.
SetName(kind) == IF kind = "ip" THEN "cli-block-ips" ELSE "cli-block-uri"

\* The store's identifier of a reference set; stable across updates.
SetARN(kind) == IF kind = "ip" THEN "arn:ipset/cli-block-ips"
                ELSE "arn:regexpatternset/cli-block-uri"

LockConflict == "WAFOptimisticLockException"
Duplicate == "WAFDuplicateItemException"
\* Failures of a store call other than the optimistic-lock conflict.
OtherErrors == {"AccessDeniedException"}

build_stmt(ipset_arn, regex_arn) ==
    IF ipset_arn # None
    THEN [IPSetReferenceStatement |-> [ARN |-> ipset_arn]]
    ELSE [RegexPatternSetReferenceStatement |->
              [ARN |-> regex_arn,
               FieldToMatch |-> "UriPath",
               TextTransformations |-> <<[Priority |-> 0, Type |-> "NONE"]>>]]

desired(ipset_arn, regex_arn) ==
    [Name |-> "CLIBlock",
     Priority |-> 1,
     Action |-> "Block",
     Statement |-> build_stmt(ipset_arn, regex_arn),
     VisibilityConfig |-> [SampledRequestsEnabled |-> TRUE,
                           CloudWatchMetricsEnabled |-> TRUE,
                           MetricName |-> "CLIBlock"]]

IsCLIBlock(r) == r.Name = "CLIBlock"
NotCLIBlock(r) == r.Name # "CLIBlock"

\* Mutation: the search by name never finds the rule.
FindIdx_Never(rs) == 0

\* next((i for i, r in enumerate(rules) if r["Name"] == "CLIBlock"), None);
\* indices are 1-based here, 0 stands for None.
FindIdx(rs) ==
    IF \E i \in DOMAIN rs : rs[i].Name = "CLIBlock"
    THEN CHOOSE i \in DOMAIN rs :
             /\ rs[i].Name = "CLIBlock"
             /\ \A j \in DOMAIN rs : rs[j].Name = "CLIBlock" => i <= j
    ELSE 0

\* Mutation: a new rule is appended instead of put first.
UpsertRule_Append(rs, d) ==
    LET idx == FindIdx(rs)
    IN  IF idx = 0 THEN rs \o <<d>>
        ELSE [rs EXCEPT ![idx] = d]

\* Mutation: an existing rule is dropped and the desired rule put first.
UpsertRule_MoveFront(rs, d) ==
    <<d>> \o SelectSeq(rs, NotCLIBlock)

\* Mutation: the desired rule is inserted whether or not one exists.
UpsertRule_AlwaysInsert(rs, d) == <<d>> \o rs

\* The merge of the desired rule into the fetched rule list.
UpsertRule(rs, d) ==
    LET idx == FindIdx(rs)
    IN  IF idx = 0 THEN <<d>> \o rs
        ELSE [rs EXCEPT ![idx] = d]

\* Mutation: the lists are concatenated, not united.
MergedValues_Concat(curValues, values) == curValues \o values

\* Mutation: the requested values replace the current ones.
MergedValues_Replace(curValues, values) == Sorted(ToSet(values))

\* sorted(set(cur) | set(values))
MergedValues(curValues, values) == Sorted(ToSet(curValues) \cup ToSet(values))

\* Rules other writers maintain in the same WebACL.
OtherRule(n, action) ==
    [Name |-> n,
     Priority |-> IF n = "RuleA" THEN 2 ELSE 3,
     Action |-> action,
     Statement |-> [ManagedRuleGroupStatement |-> n],
     VisibilityConfig |-> [SampledRequestsEnabled |-> TRUE,
                           CloudWatchMetricsEnabled |-> TRUE,
                           MetricName |-> n]]

OtherNames == {"RuleA", "RuleB"}

\* A "CLIBlock" rule left by an earlier, different push.
OldCLIBlock ==
    [desired("arn:ipset/old", None) EXCEPT !.Action = "Count"]

UniqueNames(rs) ==
    \A i, j \in DOMAIN rs : rs[i].Name = rs[j].Name => i = j

\* ------------------------------------------------------------ the WebACL ARN

\* An ARN is a sequence over an alphabet whose letters are the separators ":"
\* and "/" and whole words.
Scopes == {"REGIONAL", "CLOUDFRONT"}

ArnPrefix == <<"arn", ":", "aws", ":", "wafv2", ":", "us-east-1", ":", "111122223333", ":">>

RegionalArn == ArnPrefix \o <<"regional", "/", "webacl", "/", "myacl", "/", "abcd-1234">>
GlobalArn == ArnPrefix \o <<"global", "/", "webacl", "/", "myacl", "/", "abcd-1234">>

\* The values of --web-acl-arn the operators pass: the two well-formed ones,
\* the scope word in capitals, another policy, and malformed ones.
Arns ==
    { RegionalArn,
      GlobalArn,
      ArnPrefix \o <<"GLOBAL", "/", "webacl", "/", "myacl", "/", "abcd-1234">>,
      ArnPrefix \o <<"regional", "/", "webacl", "/", "other", "/", "abcd-1234">>,
      ArnPrefix \o <<"regional", "/", "webacl", "/", "myacl">>,
      ArnPrefix \o <<"regional", "/", "webacl", "/", "myacl", "/", "abcd-1234", "/", "extra">>,
      ArnPrefix \o <<"regional", "/", "rulegroup", "/", "myacl", "/", "abcd-1234">>,
      ArnPrefix \o <<"edge", "/", "webacl", "/", "myacl", "/", "abcd-1234">>,
      ArnPrefix \o <<"regional", "/", "webacl", "/", "/", "abcd-1234">>,
      ArnPrefix \o <<"extra", ":", "regional", "/", "webacl", "/", "myacl", "/", "abcd-1234">>,
      <<"arn", ":", "aws", ":", "global", "/", "webacl", "/", "myacl", "/", "abcd-1234">>,
      <<"regional", "/", "webacl", "/", "myacl", "/", "abcd-1234">>,
      <<"myacl">>,
      <<>> }

\* The --web-acl-arn an operator passes when nothing is wrong with it.
MatchingArn(sc) == IF sc = "CLOUDFRONT" THEN GlobalArn ELSE RegionalArn

Has(s, sep) == \E i \in DOMAIN s : s[i] = sep

FirstIdx(s, sep) == CHOOSE i \in DOMAIN s : s[i] = sep /\ \A j \in 1..(i - 1) : s[j] # sep

RECURSIVE SplitMax(_, _, _)
\* str.split(sep, maxsplit): at most maxsplit cuts, the rest stays whole.
SplitMax(s, sep, maxsplit) ==
    IF maxsplit = 0 \/ ~Has(s, sep) THEN <<s>>
    ELSE <<SubSeq(s, 1, FirstIdx(s, sep) - 1)>>
         \o SplitMax(SubSeq(s, FirstIdx(s, sep) + 1, Len(s)), sep, maxsplit - 1)

\* str.split(sep): a cut at every separator.
Split(s, sep) == SplitMax(s, sep, Len(s))

LowerWord(w) ==
    CASE w = "GLOBAL" -> "global"
      [] w = "REGIONAL" -> "regional"
      [] OTHER -> w

\* str.lower()
Lower(s) == [i \in DOMAIN s |-> LowerWord(s[i])]

ParseError == [ok |-> FALSE, scope |-> None, name |-> <<>>, id |-> <<>>]

parse_web_acl_arn(arn) ==
    LET right == SplitMax(arn, ":", 5)[Len(SplitMax(arn, ":", 5))]
        parts == Split(right, "/")
        scope_raw == Lower(parts[1])
    IN  IF Len(parts) < 4 THEN ParseError
        ELSE [ok |-> TRUE,
              scope |-> IF scope_raw = <<"global">> THEN "CLOUDFRONT" ELSE "REGIONAL",
              name |-> parts[3],
              id |-> parts[4]]

\* parse_web_acl_arn over the ARNs the operators pass, tabulated.
ParsedArns == [arn \in Arns |-> parse_web_acl_arn(arn)]

\* ------------------------------------------------------------ state

VARIABLES
    webacl,     \* the stored policy document
    sets,       \* the stored reference sets, by kind
    pc,         \* where each invocation is
    scope,      \* args.scope: the scope the operators of this behaviour work in;
                \* webacl and sets are the store of that scope
    web_acl_arn,\* args.web_acl_arn of the running invocation
    target,     \* args.block_ip / args.block_uri_regex of the invocation
    existing,   \* upsert_*: whether a set of the name was listed
    cur,        \* upsert_*: the fetched set (values, LockToken)
    ipset_arn,  \* main: result of upsert_ipset
    regex_arn,  \* main: result of upsert_regexset
    attempt,    \* ensure_block_rule: loop variable
    acl,        \* ensure_block_rule: the response of get_web_acl
    rules,      \* ensure_block_rule: the rule list to submit
    called,     \* history: the Scope arguments of the WebACL calls of the running invocation
    trace,      \* history: store calls of the running invocation, with outcomes
    last,       \* history: the invocation that ended in the step just taken, if any
    runs,       \* history: invocations started
    others,     \* history: writes by other writers
    lastOk,     \* history: the last accepted write of ensure_block_rule
    streak      \* history: undisturbed successive successful invocations

vars == <<webacl, sets, pc, scope, web_acl_arn, target, existing, cur, ipset_arn,
          regex_arn, attempt, acl, rules, called, trace, last, runs, others,
          lastOk, streak>>

store == <<webacl, sets>>
locals == <<web_acl_arn, target, existing, cur, ipset_arn, regex_arn, attempt, acl, rules>>

NoSet == [exists |-> FALSE, values |-> <<>>, LockToken |-> 0]
NoCur == [values |-> <<>>, LockToken |-> 0]
NoAcl == [Name |-> None, Id |-> None, DefaultAction |-> None,
          VisibilityConfig |-> None, Rules |-> <<>>, LockToken |-> 0]
NoLast == [target |-> NoTarget, arn |-> <<>>, result |-> None, trace |-> <<>>,
           scopes |-> {}]
NoStreak == [target |-> NoTarget, n |-> 0]
NoLastOk == [set |-> FALSE, stmt |-> None, rules |-> <<>>, LockToken |-> 0]

\* The stores the tool may find: a fresh policy with no reference set yet, or
\* a policy that already holds a "CLIBlock" rule between two other rules, an
\* address set whose values the store returns in an order of its own, and a
\* pattern set holding another pattern.
InitStores ==
    { [rules |-> <<OtherRule("RuleA", "Allow")>>,
       ipset |-> NoSet,
       regexset |-> NoSet],
      [rules |-> <<OtherRule("RuleA", "Allow"), OldCLIBlock, OtherRule("RuleB", "Count")>>,
       ipset |-> [exists |-> TRUE, values |-> <<Addr1, Addr2>>, LockToken |-> 1],
       regexset |-> [exists |-> TRUE, values |-> <<Pat2>>, LockToken |-> 1]] }

InitIn(scopes) ==
    /\ scope \in scopes
    /\ \E s \in InitStores :
         /\ webacl = [Name |-> "myacl", Id |-> "abcd-1234",
                      DefaultAction |-> "Allow",
                      VisibilityConfig |-> [MetricName |-> "myacl"],
                      Rules |-> s.rules, LockToken |-> 1]
         /\ sets = [k \in Kinds |-> IF k = "ip" THEN s.ipset ELSE s.regexset]
    /\ pc = [p \in Procs |-> "idle"]
    /\ web_acl_arn = [p \in Procs |-> <<>>]
    /\ target = [p \in Procs |-> NoTarget]
    /\ existing = [p \in Procs |-> FALSE]
    /\ cur = [p \in Procs |-> NoCur]
    /\ ipset_arn = [p \in Procs |-> None]
    /\ regex_arn = [p \in Procs |-> None]
    /\ attempt = [p \in Procs |-> 0]
    /\ acl = [p \in Procs |-> NoAcl]
    /\ rules = [p \in Procs |-> <<>>]
    /\ called = [p \in Procs |-> {}]
    /\ trace = [p \in Procs |-> <<>>]
    /\ last = NoLast
    /\ runs = 0
    /\ others = 0
    /\ lastOk = NoLastOk
    /\ streak = NoStreak

\* The operators work in the regional scope.
Init == InitIn({"REGIONAL"})


\* ------------------------------------------------------------ helpers

Active(p) == pc[p] # "idle"

Kind(p) == target[p].kind

\* The values list main() passes: [args.block_ip] or [args.block_uri_regex].
Values(p) == <<target[p].value>>

\* Name of the store operation on the reference set of a kind.
SetOp(kind, verb) ==
    IF kind = "ip" THEN
        CASE verb = "list" -> "list_ip_sets"
          [] verb = "get" -> "get_ip_set"
          [] verb = "update" -> "update_ip_set"
          [] verb = "create" -> "create_ip_set"
    ELSE
        CASE verb = "list" -> "list_regex_pattern_sets"
          [] verb = "get" -> "get_regex_pattern_set"
          [] verb = "update" -> "update_regex_pattern_set"
          [] verb = "create" -> "create_regex_pattern_set"

Call(op, res) == [op |-> op, res |-> res]

With(p, op, res) == Append(trace[p], Call(op, res))

\* Mutation: the WebACL calls carry the scope read from the ARN.
AclCallScope_FromArn(p) == ParsedArns[web_acl_arn[p]].scope

\* Scope=scope in get_web_acl and update_web_acl: the operator's flag.
AclCallScope(p) == scope

IsAclOp(op) == op \in {"get_web_acl", "update_web_acl"}

\* The Scope arguments of the WebACL calls, the call op included.
CalledWith(p, op) == IF IsAclOp(op) THEN called[p] \cup {AclCallScope(p)} ELSE called[p]

Logged(p, op, res) ==
    /\ trace' = [trace EXCEPT ![p] = With(p, op, res)]
    /\ called' = [called EXCEPT ![p] = CalledWith(p, op)]

\* The invocation ends: main() returns (res = "ok") or the error propagates,
\* and the process exits.  calls is the invocation's complete list of store calls.
Finish(p, res, calls) ==
    /\ pc' = [pc EXCEPT ![p] = "idle"]
    /\ last' = [target |-> target[p], arn |-> web_acl_arn[p], result |-> res,
                trace |-> calls,
                scopes |-> IF calls # trace[p]
                           THEN CalledWith(p, calls[Len(calls)].op)
                           ELSE called[p]]
    /\ trace' = [trace EXCEPT ![p] = <<>>]
    /\ called' = [called EXCEPT ![p] = {}]
    /\ web_acl_arn' = [web_acl_arn EXCEPT ![p] = <<>>]
    /\ target' = [target EXCEPT ![p] = NoTarget]
    /\ existing' = [existing EXCEPT ![p] = FALSE]
    /\ cur' = [cur EXCEPT ![p] = NoCur]
    /\ ipset_arn' = [ipset_arn EXCEPT ![p] = None]
    /\ regex_arn' = [regex_arn EXCEPT ![p] = None]
    /\ attempt' = [attempt EXCEPT ![p] = 0]
    /\ acl' = [acl EXCEPT ![p] = NoAcl]
    /\ rules' = [rules EXCEPT ![p] = <<>>]
    /\ streak' = IF res = "ok"
                 THEN IF streak.target = target[p]
                      THEN [streak EXCEPT !.n = @ + 1]
                      ELSE streak
                 ELSE NoStreak
    /\ UNCHANGED <<scope, runs, others>>

\* upsert_* returns the set's ARN to main(), which calls ensure_block_rule;
\* the attempt loop starts.
ReturnArn(p) ==
    /\ cur' = [cur EXCEPT ![p] = NoCur]
    /\ existing' = [existing EXCEPT ![p] = FALSE]
    /\ ipset_arn' = [ipset_arn EXCEPT ![p] = IF Kind(p) = "ip" THEN SetARN("ip") ELSE None]
    /\ regex_arn' = [regex_arn EXCEPT ![p] = IF Kind(p) = "regex" THEN SetARN("regex") ELSE None]
    /\ attempt' = [attempt EXCEPT ![p] = 1]
    /\ pc' = [pc EXCEPT ![p] = "get_acl"]

\* The store accepts an update only with the current token.
TokenFresh(tok, stored) == tok = stored.LockToken

\* ------------------------------------------------------------ main()

\* Idle processes hold no state and are interchangeable: of two idle ones the
\* first is taken to start, which leaves out only renamings of behaviours.
MayStart(p) == p = "p1" \/ Active("p1")

\* An operator starts the tool with a WebACL ARN and a block target.
InvokeWith(p, t, arn) ==
    /\ pc[p] = "idle"
    /\ MayStart(p)
    /\ runs < MaxRuns
    /\ runs' = runs + 1
    /\ pc' = [pc EXCEPT ![p] = "upsert"]
    /\ target' = [target EXCEPT ![p] = t]
    /\ web_acl_arn' = [web_acl_arn EXCEPT ![p] = arn]
    /\ streak' = IF \E q \in Procs \ {p} : Active(q) THEN NoStreak
                 ELSE IF streak.target = t THEN streak
                 ELSE [target |-> t, n |-> 0]
    /\ UNCHANGED <<store, scope, existing, cur, ipset_arn, regex_arn, attempt,
                   acl, rules, called, trace, others, lastOk>>
    /\ last' = NoLast

\* An operator starts the tool with the ARN of the policy in the scope given.
Invoke(p, t) == InvokeWith(p, t, MatchingArn(scope))

\* Mutation: the values are sent to the store without validation.
Valid_Skipped(p) == TRUE

\* The validation at the head of upsert_ipset / upsert_regexset.
Valid(p) ==
    IF Kind(p) = "ip" THEN AddressesValid(Values(p)) ELSE PatternsValid(Values(p))

ValidationError(p) == IF Kind(p) = "ip" THEN "ValueError" ELSE "re.error"

\* Mutation: the search by name never finds the set.
FoundByName_Never(p) == FALSE

\* existing = next((x for x in listed if x["Name"] == name), None)
FoundByName(p) == sets[Kind(p)].exists

\* upsert_*: validation, then the list call and the search by name.
UpsertList(p) ==
    /\ pc[p] = "upsert"
    /\ \/ /\ ~Valid(p)
          /\ Finish(p, ValidationError(p), trace[p])
          /\ UNCHANGED <<store, lastOk>>
       \/ /\ Valid(p)
          /\ existing' = [existing EXCEPT ![p] = FoundByName(p)]
          /\ pc' = [pc EXCEPT ![p] = IF FoundByName(p) THEN "get_set" ELSE "create_set"]
          /\ Logged(p, SetOp(Kind(p), "list"), "ok")
          /\ UNCHANGED <<store, scope, web_acl_arn, target, cur, ipset_arn, regex_arn, attempt, acl,
                         rules, runs, others, lastOk, streak>>
          /\ last' = NoLast
       \/ /\ Valid(p)
          /\ \E e \in OtherErrors :
               /\ Finish(p, e, With(p, SetOp(Kind(p), "list"), e))
          /\ UNCHANGED <<store, lastOk>>

\* merged != cur[...]: the sorted merge against the list as the store returned it.
NeedsUpdate(curValues, values) == MergedValues(curValues, values) # curValues

\* upsert_*, existing set: the get call, the merge and the comparison.
GetSet(p) ==
    /\ pc[p] = "get_set"
    /\ \/ /\ NeedsUpdate(sets[Kind(p)].values, Values(p))
          /\ cur' = [cur EXCEPT ![p] = [values |-> sets[Kind(p)].values,
                                        LockToken |-> sets[Kind(p)].LockToken]]
          /\ pc' = [pc EXCEPT ![p] = "update_set"]
          /\ Logged(p, SetOp(Kind(p), "get"), "ok")
          /\ UNCHANGED <<store, scope, web_acl_arn, target, existing, ipset_arn, regex_arn, attempt,
                         acl, rules, runs, others, lastOk, streak>>
          /\ last' = NoLast
       \/ /\ ~NeedsUpdate(sets[Kind(p)].values, Values(p))
          /\ ReturnArn(p)
          /\ Logged(p, SetOp(Kind(p), "get"), "ok")
          /\ UNCHANGED <<store, scope, web_acl_arn, target, acl, rules, runs,
                         others, lastOk, streak>>
          /\ last' = NoLast
       \/ \E e \in OtherErrors :
            /\ Finish(p, e, With(p, SetOp(Kind(p), "get"), e))
            /\ UNCHANGED <<store, lastOk>>

\* Mutation: a rejected update of the set is retried from the get call.
SetUpdateFailed_Retried(p, code) ==
    /\ pc' = [pc EXCEPT ![p] = "get_set"]
    /\ cur' = [cur EXCEPT ![p] = NoCur]
    /\ Logged(p, SetOp(Kind(p), "update"), code)
    /\ UNCHANGED <<store, scope, web_acl_arn, target, existing, ipset_arn, regex_arn,
                   attempt, acl, rules, runs, others, lastOk, streak>>
    /\ last' = NoLast

\* update_ip_set / update_regex_pattern_set raises and nothing catches it:
\* the error leaves upsert_* and main.
SetUpdateFailed(p, code) ==
    /\ Finish(p, code, With(p, SetOp(Kind(p), "update"), code))
    /\ UNCHANGED <<store, lastOk>>

\* upsert_*, existing set: the update call with the fetched LockToken.
UpdateSet(p) ==
    /\ pc[p] = "update_set"
    /\ \/ /\ TokenFresh(cur[p].LockToken, sets[Kind(p)])
          /\ sets' = [sets EXCEPT ![Kind(p)] =
                        [exists |-> TRUE,
                         values |-> MergedValues(cur[p].values, Values(p)),
                         LockToken |-> @.LockToken + 1]]
          /\ ReturnArn(p)
          /\ Logged(p, SetOp(Kind(p), "update"), "ok")
          /\ UNCHANGED <<webacl, scope, web_acl_arn, target, acl, rules, runs,
                         others, lastOk, streak>>
          /\ last' = NoLast
       \/ /\ ~TokenFresh(cur[p].LockToken, sets[Kind(p)])
          /\ SetUpdateFailed(p, LockConflict)
       \/ \E e \in OtherErrors : SetUpdateFailed(p, e)

\* upsert_*, no set of the name listed: the create call.
CreateSet(p) ==
    /\ pc[p] = "create_set"
    /\ \/ /\ ~sets[Kind(p)].exists
          /\ sets' = [sets EXCEPT ![Kind(p)] =
                        [exists |-> TRUE, values |-> Values(p), LockToken |-> 1]]
          /\ ReturnArn(p)
          /\ Logged(p, SetOp(Kind(p), "create"), "ok")
          /\ UNCHANGED <<webacl, scope, web_acl_arn, target, acl, rules, runs,
                         others, lastOk, streak>>
          /\ last' = NoLast
       \/ /\ sets[Kind(p)].exists
          /\ Finish(p, Duplicate, With(p, SetOp(Kind(p), "create"), Duplicate))
          /\ UNCHANGED <<store, lastOk>>
       \/ \E e \in OtherErrors :
            /\ Finish(p, e, With(p, SetOp(Kind(p), "create"), e))
            /\ UNCHANGED <<store, lastOk>>

\* ------------------------------------------------------------ ensure_block_rule

\* The statement of the rule this invocation wants.
Desired(p) == desired(ipset_arn[p], regex_arn[p])

\* name, wid, scope_from_arn of ensure_block_rule.
Parsed(p) == ParsedArns[web_acl_arn[p]]

\* if scope_from_arn != scope: print("[WARN] ... Using flag scope ...")
Warning == Call("print", "[WARN] Scope mismatch")

\* The invocation's outputs and calls once ensure_block_rule has passed its
\* head: the first attempt is preceded by the parse and the scope comparison.
Entered(p) ==
    IF attempt[p] = 1 /\ Parsed(p).scope # scope
    THEN Append(trace[p], Warning)
    ELSE trace[p]

\* The store holds the policy under its name and id in the operators' scope.
Found(p) ==
    /\ AclCallScope(p) = scope
    /\ Parsed(p).name = <<webacl.Name>>
    /\ Parsed(p).id = <<webacl.Id>>

NotFound == "WAFNonexistentItemException"

\* Mutation: the second attempt reuses the document fetched by the first.
Fetched_Reused(p) == IF attempt[p] = 1 THEN webacl ELSE acl[p]

\* client.get_web_acl(...) inside the loop: the document as stored now.
Fetched(p) == webacl

\* One attempt, first half (before the first attempt, the parse of the ARN
\* and the scope comparison): get_web_acl and the merge of the desired rule.
GetWebACL(p) ==
    /\ pc[p] = "get_acl"
    /\ \/ /\ ~Parsed(p).ok
          /\ Finish(p, "ValueError", trace[p])
          /\ UNCHANGED <<store, lastOk>>
       \/ /\ Parsed(p).ok
          /\ Found(p)
          /\ acl' = [acl EXCEPT ![p] = Fetched(p)]
          /\ rules' = [rules EXCEPT ![p] = UpsertRule(Fetched(p).Rules, Desired(p))]
          /\ pc' = [pc EXCEPT ![p] = "update_acl"]
          /\ trace' = [trace EXCEPT ![p] = Append(Entered(p), Call("get_web_acl", "ok"))]
          /\ called' = [called EXCEPT ![p] = CalledWith(p, "get_web_acl")]
          /\ UNCHANGED <<store, scope, web_acl_arn, target, existing, cur, ipset_arn,
                         regex_arn, attempt, runs, others, lastOk, streak>>
          /\ last' = NoLast
       \/ /\ Parsed(p).ok
          /\ ~Found(p)
          /\ Finish(p, NotFound, Append(Entered(p), Call("get_web_acl", NotFound)))
          /\ UNCHANGED <<store, lastOk>>
       \/ /\ Parsed(p).ok
          /\ \E e \in OtherErrors :
               Finish(p, e, Append(Entered(p), Call("get_web_acl", e)))
          /\ UNCHANGED <<store, lastOk>>

\* Mutation: the write carries whatever token is current, not the fetched one.
LockTokenSent_Current(p) == webacl.LockToken

\* LockToken=acl["LockToken"]
LockTokenSent(p) == acl[p].LockToken

\* Mutation: the write submits a fixed default action, not the fetched one.
Written_FixedDefault(p) ==
    [webacl EXCEPT !.DefaultAction = "Allow",
                   !.VisibilityConfig = acl[p].VisibilityConfig,
                   !.Rules = rules[p],
                   !.LockToken = @ + 1]

\* The document update_web_acl stores when it accepts the write.
Written(p) ==
    [webacl EXCEPT !.DefaultAction = acl[p].DefaultAction,
                   !.VisibilityConfig = acl[p].VisibilityConfig,
                   !.Rules = rules[p],
                   !.LockToken = @ + 1]

\* Mutation: a conflict is never retried.
ShouldRetry_Never(code, att) == FALSE

\* Mutation: a conflict is retried on every attempt.
ShouldRetry_AnyAttempt(code, att) == code = LockConflict

\* Mutation: any failure of the first attempt is retried.
ShouldRetry_AnyError(code, att) == att = 1

\* code == "WAFOptimisticLockException" and attempt == 1
ShouldRetry(code, att) == code = LockConflict /\ att = 1

\* The except clause: `continue` (the next attempt, or the end of the loop,
\* after which the function returns normally) or `raise`.
OnClientError(p, code) ==
    IF ShouldRetry(code, attempt[p])
    THEN IF attempt[p] < 2
         THEN /\ attempt' = [attempt EXCEPT ![p] = @ + 1]
              /\ pc' = [pc EXCEPT ![p] = "get_acl"]
              /\ Logged(p, "update_web_acl", code)
              /\ UNCHANGED <<scope, web_acl_arn, target, existing, cur, ipset_arn, regex_arn, acl,
                             rules, runs, others, streak>>
              /\ last' = NoLast
         ELSE Finish(p, "ok", With(p, "update_web_acl", code))
    ELSE Finish(p, code, With(p, "update_web_acl", code))

\* One attempt, second half: update_web_acl and the handling of its outcome.
UpdateWebACL(p) ==
    /\ pc[p] = "update_acl"
    /\ \/ /\ TokenFresh(LockTokenSent(p), webacl)
          /\ webacl' = Written(p)
          /\ lastOk' = [set |-> TRUE, stmt |-> Desired(p).Statement,
                        rules |-> rules[p], LockToken |-> webacl.LockToken + 1]
          /\ Finish(p, "ok", With(p, "update_web_acl", "ok"))
          /\ UNCHANGED sets
       \/ /\ ~TokenFresh(LockTokenSent(p), webacl)
          /\ OnClientError(p, LockConflict)
          /\ UNCHANGED <<store, lastOk>>
       \/ \E e \in OtherErrors :
            /\ OnClientError(p, e)
            /\ UNCHANGED <<store, lastOk>>

\* ------------------------------------------------------------ other writers

Names(rs) == {rs[i].Name : i \in DOMAIN rs}

RemoveAt(rs, i) == [j \in 1..(Len(rs) - 1) |-> IF j < i THEN rs[j] ELSE rs[j + 1]]

Toggled(r) ==
    [r EXCEPT !.Action = IF r.Action = "Count" THEN "Allow" ELSE "Count"]

\* The edits another writer (console, Terraform, another tool) may make to
\* the rule list; every one keeps the rule names unique.
OtherEdits(rs) ==
    {rs \o <<OtherRule(n, "Allow")>> : n \in OtherNames \ Names(rs)}
    \cup {RemoveAt(rs, i) : i \in DOMAIN rs \cap {Len(rs)}}
    \cup {[rs EXCEPT ![i] = Toggled(rs[i])] : i \in DOMAIN rs \cap {1}}

\* Another writer replaces the document (its write is accepted by the store).
OtherWriter ==
    /\ others < MaxOther
    /\ others' = others + 1
    /\ \/ \E rs \in OtherEdits(webacl.Rules) :
            webacl' = [webacl EXCEPT !.Rules = rs, !.LockToken = @ + 1]
       \/ webacl' = [webacl EXCEPT
                        !.DefaultAction = IF @ = "Allow" THEN "Block" ELSE "Allow",
                        !.LockToken = @ + 1]
    /\ streak' = NoStreak
    /\ UNCHANGED <<sets, pc, scope, locals, called, trace, runs, lastOk>>
    /\ last' = NoLast

\* ------------------------------------------------------------ specification

\* The operator whose arguments vary in SpecArgs.
Operator == "p1"

InitArgs == InitIn(Scopes)

\* The operator starts the tool with any of the ARNs.
InvokeArgs(t, arn) == runs < MaxArgRuns /\ InvokeWith(Operator, t, arn)

\* One operator, in either scope, passing any of the ARNs.
NextArgs ==
    \/ \E t \in Targets, arn \in Arns : InvokeArgs(t, arn)
    \/ UpsertList(Operator)
    \/ GetSet(Operator)
    \/ UpdateSet(Operator)
    \/ CreateSet(Operator)
    \/ GetWebACL(Operator)
    \/ UpdateWebACL(Operator)
    \/ OtherWriter

SpecArgs == InitArgs /\ [][NextArgs]_vars

Next ==
    \/ \E p \in Procs, t \in Targets : Invoke(p, t)
    \/ \E p \in Procs : UpsertList(p)
    \/ \E p \in Procs : GetSet(p)
    \/ \E p \in Procs : UpdateSet(p)
    \/ \E p \in Procs : CreateSet(p)
    \/ \E p \in Procs : GetWebACL(p)
    \/ \E p \in Procs : UpdateWebACL(p)
    \/ OtherWriter

Spec == Init /\ [][Next]_vars


\* ------------------------------------------------------------ observations

IsAclCall(c) == c.op \in {"get_web_acl", "update_web_acl"}
IsFetch(c) == c.op = "get_web_acl"
IsWrite(c) == c.op = "update_web_acl"

\* The calls of ensure_block_rule among the calls of an invocation.
AclCalls(tr) == SelectSeq(tr, IsAclCall)
Fetches(tr) == SelectSeq(tr, IsFetch)
Writes(tr) == SelectSeq(tr, IsWrite)
Outcomes(tr) == [i \in DOMAIN tr |-> tr[i].res]

\* An invocation ended in the step just taken.
Ended == last.result # None

Fetch == Call("get_web_acl", "ok")
WriteOf(res) == Call("update_web_acl", res)

\* The step is p's update_web_acl being accepted by the store.
WriteAccepted(p) ==
    /\ pc[p] = "update_acl"
    /\ pc'[p] = "idle"
    /\ last'.result = "ok"

\* The rule this tool wants for a target kind.
DesiredFor(kind) ==
    IF kind = "ip" THEN desired(SetARN("ip"), None) ELSE desired(None, SetARN("regex"))

\* How often x occurs in the sequence xs.
Count(xs, x) == Cardinality({i \in DOMAIN xs : xs[i] = x})

\* ------------------------------------------------------------ claims

\* C1: every accepted write of ensure_block_rule was computed from the document
\* as it is stored at the moment of the write (the token of the same attempt's
\* fetch is still current), so the stored rules after the write are the stored
\* rules before it with only "CLIBlock" inserted or replaced: the other rules
\* are the same, in the same order, and nothing another writer did is lost.
C1_NoLostUpdate ==
    [][\A p \in Procs : WriteAccepted(p) =>
          /\ acl[p].LockToken = webacl.LockToken
          /\ acl[p].Rules = webacl.Rules
          /\ SelectSeq(webacl'.Rules, NotCLIBlock) = SelectSeq(webacl.Rules, NotCLIBlock)
          /\ SelectSeq(webacl'.Rules, IsCLIBlock) = <<DesiredFor(Kind(p))>>
          /\ Len(webacl'.Rules) =
                IF \E i \in DOMAIN webacl.Rules : IsCLIBlock(webacl.Rules[i])
                THEN Len(webacl.Rules) ELSE Len(webacl.Rules) + 1]_vars

\* C1 witness: a write of the tool was accepted after another writer had changed
\* the document and after a first attempt of the same invocation had conflicted.
C1_Witness ==
    /\ Ended
    /\ last.result = "ok"
    /\ others >= 1
    /\ Outcomes(Writes(last.trace)) = <<LockConflict, "ok">>
    /\ Len(webacl.Rules) >= 2

\* C2: a conflict on the first update_web_acl is retried, and when the second
\* update_web_acl succeeds the invocation succeeds after exactly two fetches,
\* the second one after the failed first write.
C2_RetrySucceeds ==
    Ended =>
      /\ AclCalls(last.trace) # <<Fetch, WriteOf(LockConflict)>>
      /\ Outcomes(Writes(last.trace)) = <<LockConflict, "ok">> =>
            /\ last.result = "ok"
            /\ Len(Fetches(last.trace)) = 2
            /\ AclCalls(last.trace) =
                  <<Fetch, WriteOf(LockConflict), Fetch, WriteOf("ok")>>

\* C2 witness: an invocation ended whose first write conflicted and whose second
\* write was accepted.
C2_Witness ==
    /\ Ended
    /\ Outcomes(Writes(last.trace)) = <<LockConflict, "ok">>

\* C3: conflicts on both attempts end the invocation in failure with the
\* conflict as the error, after exactly two fetches and two writes; no
\* invocation ever issues a third fetch or a third write.
C3_SecondConflictFatal ==
    /\ \A p \in Procs : Len(Fetches(trace[p])) <= 2 /\ Len(Writes(trace[p])) <= 2
    /\ Ended =>
         /\ Len(Fetches(last.trace)) <= 2
         /\ Len(Writes(last.trace)) <= 2
         /\ Outcomes(Writes(last.trace)) = <<LockConflict, LockConflict>> =>
               /\ last.result = LockConflict
               /\ AclCalls(last.trace) =
                     <<Fetch, WriteOf(LockConflict), Fetch, WriteOf(LockConflict)>>

\* C3 witness: an invocation ended after two conflicting writes.
C3_Witness ==
    /\ Ended
    /\ Outcomes(Writes(last.trace)) = <<LockConflict, LockConflict>>

\* C4: a failure of get_web_acl or update_web_acl other than the conflict ends
\* the invocation at once with that very error: it is the last call of the
\* invocation, and a running invocation has no such failure behind it.  When it
\* is the first write that fails so, the invocation made one fetch and one write.
C4_OtherFailureFatal ==
    /\ \A p \in Procs : \A i \in DOMAIN trace[p] :
          IsAclCall(trace[p][i]) => trace[p][i].res \in {"ok", LockConflict}
    /\ Ended =>
         \A i \in DOMAIN last.trace :
            (IsAclCall(last.trace[i]) /\ last.trace[i].res \in OtherErrors) =>
               /\ i = Len(last.trace)
               /\ last.result = last.trace[i].res
               /\ ((Writes(last.trace) # <<>> /\ Writes(last.trace)[1].res \in OtherErrors) =>
                      AclCalls(last.trace) = <<Fetch, WriteOf(last.result)>>)

\* C4 witness: an invocation ended by a non-conflict failure of its first write.
C4_Witness ==
    /\ Ended
    /\ last.result \in OtherErrors
    /\ Len(Writes(last.trace)) = 1
    /\ Writes(last.trace)[1].res \in OtherErrors

\* C4 second witness case is covered by the same formula: a non-conflict failure
\* of the second attempt's fetch.
C4_SecondAttemptCase ==
    /\ Ended
    /\ last.result \in OtherErrors
    /\ Len(Fetches(last.trace)) = 2
    /\ Fetches(last.trace)[2].res \in OtherErrors

\* C5: when the fetched document has N rules and none named "CLIBlock", the
\* submitted list has N+1 rules, the desired rule first, then the N fetched
\* rules unchanged in their order.
C5_InsertFront ==
    \A p \in Procs :
      (pc[p] = "update_acl" /\ \A i \in DOMAIN acl[p].Rules : NotCLIBlock(acl[p].Rules[i])) =>
         /\ Len(rules[p]) = Len(acl[p].Rules) + 1
         /\ rules[p][1] = DesiredFor(Kind(p))
         /\ \A i \in DOMAIN acl[p].Rules : rules[p][i + 1] = acl[p].Rules[i]

\* C5 witness: a list is ready for submission that was merged into two fetched
\* rules, neither named "CLIBlock".
C5_Witness ==
    \E p \in Procs :
      /\ pc[p] = "update_acl"
      /\ Len(acl[p].Rules) = 2
      /\ \A i \in DOMAIN acl[p].Rules : NotCLIBlock(acl[p].Rules[i])

\* C6: when the fetched document has a rule named "CLIBlock" at index k, the
\* submitted list has the same length, the desired rule at index k, and every
\* other index holds the fetched rule.
C6_ReplaceInPlace ==
    \A p \in Procs : \A k \in DOMAIN acl[p].Rules :
      (pc[p] = "update_acl" /\ IsCLIBlock(acl[p].Rules[k])) =>
         /\ Len(rules[p]) = Len(acl[p].Rules)
         /\ rules[p][k] = DesiredFor(Kind(p))
         /\ \A i \in DOMAIN acl[p].Rules : i # k => rules[p][i] = acl[p].Rules[i]

\* C6 witness: the fetched document holds a different "CLIBlock" rule between
\* two other rules (k = 2 of N = 3).
C6_Witness ==
    \E p \in Procs :
      /\ pc[p] = "update_acl"
      /\ Len(acl[p].Rules) = 3
      /\ IsCLIBlock(acl[p].Rules[2])
      /\ acl[p].Rules[2] # DesiredFor(Kind(p))

\* C7: after the address path ran twice in succession with the same address,
\* both runs succeeding and nobody else writing, the address set holds the
\* address exactly once and the document exactly one rule named "CLIBlock".
C7_TwiceSameAddress ==
    (streak.n >= 2 /\ streak.target.kind = "ip") =>
       /\ Count(sets["ip"].values, streak.target.value) = 1
       /\ Len(SelectSeq(webacl.Rules, IsCLIBlock)) = 1

\* C7 witness: two successive undisturbed successful runs with the same address.
C7_Witness ==
    /\ streak.n >= 2
    /\ streak.target.kind = "ip"

\* C8: the stored document's rule names are unique in every reachable state.
C8_UniqueRuleNames == UniqueNames(webacl.Rules)

\* C8 witness: the tool wrote a document that other writers also changed, and
\* it holds "CLIBlock" among other rules.
C8_Witness ==
    /\ lastOk.set
    /\ others >= 1
    /\ Len(webacl.Rules) >= 3
    /\ \E i \in DOMAIN webacl.Rules : IsCLIBlock(webacl.Rules[i])

\* C9: an accepted write of ensure_block_rule that follows an accepted write
\* with the same statement, no writer in between, leaves the stored rule list
\* as that earlier write left it (same length, content and position).
C9_SecondCallNoChange ==
    [][\A p \in Procs :
         (/\ WriteAccepted(p)
          /\ lastOk.set
          /\ lastOk.LockToken = webacl.LockToken
          /\ lastOk.stmt = DesiredFor(Kind(p)).Statement)
         => webacl'.Rules = lastOk.rules]_vars

\* C9 witness: two accepted writes with the same statement and no writer in
\* between; the rule sits where the first write put it, behind another rule.
C9_Witness ==
    /\ streak.n >= 2
    /\ lastOk.set
    /\ lastOk.LockToken = webacl.LockToken
    /\ webacl.Rules = lastOk.rules
    /\ \E i \in DOMAIN webacl.Rules : i > 1 /\ IsCLIBlock(webacl.Rules[i])

\* C10: a reference set never loses a value, and an accepted update of an
\* existing set stores exactly the set's current values and the new ones.
C10_SetsOnlyGrow ==
    [][/\ \A k \in Kinds : sets[k].exists =>
             /\ sets'[k].exists
             /\ ToSet(sets[k].values) \subseteq ToSet(sets'[k].values)
       /\ \A p \in Procs : (pc[p] = "update_set" /\ pc'[p] = "get_acl") =>
             ToSet(sets'[Kind(p)].values) =
                ToSet(sets[Kind(p)].values) \cup ToSet(Values(p))]_vars

\* C10 witness: both kinds of set were updated and hold two values.
C10_Witness ==
    /\ sets["ip"].LockToken >= 2
    /\ Cardinality(ToSet(sets["ip"].values)) = 2
    /\ sets["regex"].LockToken >= 2
    /\ Cardinality(ToSet(sets["regex"].values)) = 2

\* C11: for an existing set, update_* is called if and only if the merged
\* value set differs from the set's current value set; when every requested
\* value is already in the set, in whatever order the store lists its values,
\* no update is issued and the set's LockToken stays.
C11_UpdateIffSetDiffers ==
    [][\A p \in Procs :
         /\ (pc[p] = "get_set" /\ pc'[p] \in {"update_set", "get_acl"}) =>
              (pc'[p] = "update_set" <=>
                 ~(ToSet(Values(p)) \subseteq ToSet(sets[Kind(p)].values)))
         /\ (pc[p] = "update_set" /\ pc'[p] # "update_set"
               /\ ToSet(Values(p)) \subseteq ToSet(cur[p].values)) =>
              sets'[Kind(p)].LockToken = sets[Kind(p)].LockToken]_vars

\* C12: an upsert whose value fails validation (an address without "/", a
\* pattern that does not compile) ends with the validation error before any
\* store call, leaving the reference sets and the policy document as they
\* were; a value that passes validation is never rejected by validation.
PassesValidation(t) ==
    IF t.kind = "ip" THEN HasSlash(t.value) ELSE Compiles(t.value)

ValidationErrors == {"ValueError", "re.error"}

C12_ValidationFirst ==
    [][\A p \in Procs : (pc[p] = "upsert" /\ pc'[p] # "upsert") =>
         IF PassesValidation(target[p])
         THEN trace'[p] # <<>> \/ (last'.trace # <<>> /\ last'.result \notin ValidationErrors)
         ELSE /\ pc'[p] = "idle"
              /\ last'.result = (IF target[p].kind = "ip" THEN "ValueError" ELSE "re.error")
              /\ last'.trace = <<>>
              /\ webacl' = webacl
              /\ sets' = sets]_vars

\* C12 witness: an invocation with a pattern that does not compile has ended.
C12_Witness ==
    /\ Ended
    /\ last.target.kind = "regex"
    /\ ~PassesValidation(last.target)
    /\ last.result = "re.error"

\* The calls of upsert_ipset / upsert_regexset among the calls of an invocation.
IsSetCall(c) == ~IsAclOp(c.op) /\ c.op # "print"
SetCalls(tr) == SelectSeq(tr, IsSetCall)

\* upsert_* returned the set's ARN, so ensure_block_rule was called.
UpsertReturned(tr) ==
    /\ SetCalls(tr) # <<>>
    /\ SetCalls(tr)[Len(SetCalls(tr))].res = "ok"
    /\ SetCalls(tr)[Len(SetCalls(tr))].op \notin {"list_ip_sets", "list_regex_pattern_sets"}

\* scheme:provider:service:region:account:<scope-segment>/webacl/<name>/<id>
ArnPath(arn) == Split(Split(arn, ":")[Len(Split(arn, ":"))], "/")

ArnShape(arn) ==
    /\ Len(Split(arn, ":")) = 6
    /\ Len(ArnPath(arn)) = 4
    /\ Lower(ArnPath(arn)[1]) \in {<<"regional">>, <<"global">>}
    /\ ArnPath(arn)[2] = <<"webacl">>
    /\ ArnPath(arn)[3] # <<>>
    /\ ArnPath(arn)[4] # <<>>

\* C13: parse_web_acl_arn returns {scope, name, id} exactly for identifiers of
\* the shape above (regional giving REGIONAL, global giving CLOUDFRONT), and
\* fails with a parse error for every other identifier.
C13_ParseExact ==
    /\ \A p \in Procs : pc[p] = "update_acl" =>
         /\ ArnShape(web_acl_arn[p])
         /\ Parsed(p) =
              [ok |-> TRUE,
               scope |-> IF Lower(ArnPath(web_acl_arn[p])[1]) = <<"global">>
                         THEN "CLOUDFRONT" ELSE "REGIONAL",
               name |-> ArnPath(web_acl_arn[p])[3],
               id |-> ArnPath(web_acl_arn[p])[4]]
    /\ (Ended /\ UpsertReturned(last.trace) /\ ~ArnShape(last.arn)) =>
         (last.result = "ValueError" /\ AclCalls(last.trace) = <<>>)

\* The scope comparison of ensure_block_rule came out unequal.
ScopeMismatch(arn) == ParsedArns[arn].ok /\ ParsedArns[arn].scope # scope

Warned(tr) == \E i \in DOMAIN tr : tr[i] = Warning

\* C14: when the scope read from the ARN differs from the operator's scope,
\* ensure_block_rule does not fail on it: it prints the warning and goes on to
\* get_web_acl; every get_web_acl and update_web_acl, on both attempts,
\* carries the operator's scope.
C14_FlagScopeWins ==
    /\ \A p \in Procs : called[p] \subseteq {scope}
    /\ \A p \in Procs : (pc[p] = "update_acl" /\ ScopeMismatch(web_acl_arn[p])) =>
         Warned(trace[p])
    /\ Ended => last.scopes \subseteq {scope}
    /\ (Ended /\ UpsertReturned(last.trace) /\ ScopeMismatch(last.arn)) =>
         /\ last.result # "ValueError"
         /\ Warned(last.trace)
         /\ Fetches(last.trace) # <<>>

\* C14 witness: an invocation whose ARN names the other scope met a conflict,
\* retried and succeeded, all four calls in the operator's scope.
C14_Witness ==
    /\ Ended
    /\ ScopeMismatch(last.arn)
    /\ last.result = "ok"
    /\ Len(Fetches(last.trace)) = 2
    /\ Len(Writes(last.trace)) = 2
    /\ last.scopes = {scope}

\* C15: when the upsert of the reference set succeeded and ensure_block_rule
\* fails, the invocation ends in failure without the success message, and the
\* set keeps the value; an upsert that finds a set of the name goes on to get
\* and update it, and a set is created only where none of the name exists.
C15_FailureKeepsSet ==
    [][\A p \in Procs :
         /\ (pc[p] \in {"get_acl", "update_acl"} /\ pc'[p] = "idle") =>
              /\ last'.result = "ok" <=>
                   last'.trace[Len(last'.trace)] = WriteOf("ok")
              /\ last'.result # "ok" =>
                   /\ sets' = sets
                   /\ sets[Kind(p)].exists
                   /\ target[p].value \in ToSet(sets[Kind(p)].values)
         /\ (pc[p] = "upsert" /\ pc'[p] \notin {"upsert", "idle"}
               /\ sets[Kind(p)].exists) =>
              pc'[p] = "get_set"
         /\ (pc[p] = "create_set" /\ pc'[p] = "get_acl") =>
              ~sets[Kind(p)].exists]_vars

\* C15 witness: an invocation created the address set and ended without a
\* write to the policy; the other invocation, with the same target, found the
\* set by name and is about to get it.
C15_Witness ==
    /\ runs = 2
    /\ others = 0
    /\ webacl.LockToken = 1
    /\ sets["ip"] = [exists |-> TRUE, values |-> <<Addr1>>, LockToken |-> 1]
    /\ pc = [p \in Procs |-> IF p = "p1" THEN "get_set" ELSE "idle"]
    /\ target["p1"] = [kind |-> "ip", value |-> Addr1]

\* C16: an accepted update_web_acl leaves the document's default action,
\* visibility config, name and id as they were in the version it was written
\* against, which is the one fetched by the get_web_acl of the same attempt.
C16_FrameKept ==
    [][\A p \in Procs : WriteAccepted(p) =>
         /\ acl[p] = webacl
         /\ webacl'.DefaultAction = webacl.DefaultAction
         /\ webacl'.VisibilityConfig = webacl.VisibilityConfig
         /\ webacl'.Name = webacl.Name
         /\ webacl'.Id = webacl.Id]_vars

\* C16 witness: the default action was changed to "Block" by another writer
\* after the first fetch; the write of the second attempt was accepted and the
\* default action is still "Block".
C16_Witness ==
    /\ Ended
    /\ last.result = "ok"
    /\ Len(Writes(last.trace)) = 2
    /\ others = 1
    /\ webacl.DefaultAction = "Block"
    /\ lastOk.LockToken = webacl.LockToken

\* C17: an invocation of ensure_block_rule changes the stored document at
\* most once: if it ends in an error none of its writes was accepted, if it
\* returns normally exactly one was, and that was the last call it made; the
\* document changes only in a step that is an accepted write (or the write of
\* another writer).
C17_AtMostOneWrite ==
    [][/\ Ended' =>
            /\ Count(Writes(last'.trace), WriteOf("ok")) <= 1
            /\ last'.result # "ok" =>
                 Count(Writes(last'.trace), WriteOf("ok")) = 0
            /\ last'.result = "ok" =>
                 /\ Count(Writes(last'.trace), WriteOf("ok")) = 1
                 /\ last'.trace[Len(last'.trace)] = WriteOf("ok")
       /\ webacl' # webacl =>
            \/ others' = others + 1
            \/ \E p \in Procs : WriteAccepted(p) /\ webacl'.LockToken = webacl.LockToken + 1]_vars

\* C17 witness: an invocation ended in an error on its second attempt, after
\* a conflict on the first; the document carries the other writer's change only.
C17_Witness ==
    /\ Ended
    /\ last.result \in OtherErrors
    /\ Len(Fetches(last.trace)) = 2
    /\ Outcomes(Writes(last.trace)) = <<LockConflict, last.result>>
    /\ ~lastOk.set
    /\ webacl.LockToken = 1 + others

CLIBlockCount(rs) == Cardinality({i \in DOMAIN rs : IsCLIBlock(rs[i])})

\* No call of ensure_block_rule failed other than by a conflict.
OnlyConflicts(tr) ==
    \A i \in DOMAIN AclCalls(tr) : AclCalls(tr)[i].res \in {"ok", LockConflict}

\* C18: with at most two invocations and no other writer, an invocation whose
\* ensure_block_rule meets no failure other than conflicts returns success
\* after at most one conflict, and once both have written, the document holds
\* exactly one rule named "CLIBlock".
C18_TwoConcurrentSucceed ==
    /\ (Ended /\ runs <= 2 /\ others = 0 /\ UpsertReturned(last.trace)
          /\ OnlyConflicts(last.trace)) =>
         /\ last.result = "ok"
         /\ Count(Writes(last.trace), WriteOf(LockConflict)) <= 1
    /\ (runs <= 2 /\ others = 0 /\ webacl.LockToken = 3) =>
         CLIBlockCount(webacl.Rules) = 1

\* C18 witness: of two concurrent invocations the second to write met the
\* conflict, retried and succeeded; both writes were accepted.
C18_Witness ==
    /\ Ended
    /\ runs = 2
    /\ others = 0
    /\ last.result = "ok"
    /\ Outcomes(Writes(last.trace)) = <<LockConflict, "ok">>
    /\ webacl.LockToken = 3
    /\ CLIBlockCount(webacl.Rules) = 1

\* The reference set a rule statement points to, if any.
RefArn(st) ==
    IF "IPSetReferenceStatement" \in DOMAIN st THEN st.IPSetReferenceStatement.ARN
    ELSE IF "RegexPatternSetReferenceStatement" \in DOMAIN st
         THEN st.RegexPatternSetReferenceStatement.ARN
         ELSE None

OtherKind(kind) == IF kind = "ip" THEN "regex" ELSE "ip"

\* C19: both paths write the one rule "CLIBlock": after an accepted write the
\* rule references the reference set of the writing invocation only, no rule
\* of the document references the set of the other path, and no reference set
\* was removed.
C19_LaterPathWins ==
    [][/\ \A p \in Procs : WriteAccepted(p) =>
            /\ \A i \in DOMAIN webacl'.Rules :
                 /\ IsCLIBlock(webacl'.Rules[i]) =>
                      RefArn(webacl'.Rules[i].Statement) = SetARN(Kind(p))
                 /\ RefArn(webacl'.Rules[i].Statement) # SetARN(OtherKind(Kind(p)))
            /\ CLIBlockCount(webacl'.Rules) = 1
       /\ \A k \in Kinds : sets[k].exists => sets'[k].exists]_vars

\* C19 witness: an address-block invocation created its set and wrote the
\* rule, then a pattern-block invocation wrote it; the rule references the
\* pattern set and the address set is still in the store.
C19_Witness ==
    /\ Ended
    /\ runs = 2
    /\ others = 0
    /\ webacl.LockToken = 3
    /\ last.result = "ok"
    /\ last.target.kind = "regex"
    /\ sets["ip"].exists
    /\ sets["ip"].values = <<Addr1>>
    /\ \A i \in DOMAIN webacl.Rules :
         RefArn(webacl.Rules[i].Statement) # SetARN("ip")
    /\ \E i \in DOMAIN webacl.Rules :
         /\ IsCLIBlock(webacl.Rules[i])
         /\ RefArn(webacl.Rules[i].Statement) = SetARN("regex")

IsSetUpdate(c) == c.op \in {"update_ip_set", "update_regex_pattern_set"}

\* C20: an update of an existing reference set that carries a stale token is
\* not retried: the invocation ends with the failure after that one update
\* call, without a call to get_web_acl or update_web_acl, and the store is as
\* it was.
C20_NoRetryInUpsert ==
    [][\A p \in Procs :
         (pc[p] = "update_set" /\ pc'[p] # "update_set"
            /\ ~TokenFresh(cur[p].LockToken, sets[Kind(p)])) =>
              /\ pc'[p] = "idle"
              /\ last'.result \in {LockConflict} \cup OtherErrors
              /\ Len(SelectSeq(last'.trace, IsSetUpdate)) = 1
              /\ IsSetUpdate(last'.trace[Len(last'.trace)])
              /\ AclCalls(last'.trace) = <<>>
              /\ webacl' = webacl
              /\ sets' = sets]_vars

\* C20 witness: an invocation ended with the conflict of its set update; the
\* set had been updated by the other invocation after this one's get.
C20_Witness ==
    /\ Ended
    /\ last.result = LockConflict
    /\ last.target.kind = "ip"
    /\ last.trace = <<Call("list_ip_sets", "ok"), Call("get_ip_set", "ok"),
                      Call("update_ip_set", LockConflict)>>
    /\ sets["ip"].LockToken >= 2

=============================================================================
